---- MODULE Spec2Model ----
(***************************************************************************)
(* A model of app.py, the Streamlit to-do list with optional AI            *)
(* enrichment.                                                             *)
(*                                                                         *)
(* Python strings are sequences of one-character strings, so that lower(), *)
(* title(), strip() and the substring test are computed character by       *)
(* character.  JSON text is a sequence of tokens (whitespace is dropped by  *)
(* the tokenisation), JSON/Python values are tagged records.                *)
(***************************************************************************)
EXTENDS Integers, Sequences, FiniteSets, TLC

VARIABLES
    tasks,        \* st.session_state.tasks: a sequence of task dicts
    wstate,       \* Streamlit's widget state of the done_<i> checkboxes
    uploaded,     \* the file held by the file_uploader widget
    export,       \* the data handed to st.download_button by the last run
    msgs,         \* st.warning / st.error / st.success of the last run
    ev,           \* the last user event (or function call) and what it did
    keyIdentity   \* Streamlit build: a keyed widget's identity is its key alone

vars == <<tasks, wstate, uploaded, export, msgs, ev, keyIdentity>>

(***************************************************************************)
(* Bounds of the model.                                                    *)
(***************************************************************************)
MaxTasks == 2        \* add_task is offered while the list is shorter
MaxWords == 2        \* words per task text handed to keyword_category

(***************************************************************************)
(* Python str: lower, title, strip, `in`.                                  *)
(***************************************************************************)
LowerCase == <<"a","b","c","d","e","f","g","h","i","j","k","l","m",
               "n","o","p","q","r","s","t","u","v","w","x","y","z">>
UpperCase == <<"A","B","C","D","E","F","G","H","I","J","K","L","M",
               "N","O","P","Q","R","S","T","U","V","W","X","Y","Z">>
Whitespace == {" ", "\t", "\n"}

IsLower(c) == \E i \in 1..26 : LowerCase[i] = c
IsUpper(c) == \E i \in 1..26 : UpperCase[i] = c
IsCased(c) == IsLower(c) \/ IsUpper(c)
ToLower(c) == IF IsUpper(c) THEN LowerCase[CHOOSE i \in 1..26 : UpperCase[i] = c] ELSE c
ToUpper(c) == IF IsLower(c) THEN UpperCase[CHOOSE i \in 1..26 : LowerCase[i] = c] ELSE c

\* str.lower()
lower(s) == [i \in 1..Len(s) |-> ToLower(s[i])]

\* str.title(): a cased character is upper-cased when it follows an uncased
\* one (or starts the string) and lower-cased otherwise
title(s) ==
    [i \in 1..Len(s) |->
        IF i = 1 \/ ~IsCased(s[i - 1]) THEN ToUpper(s[i]) ELSE ToLower(s[i])]

\* str.strip()
strip(s) ==
    LET keep == {i \in 1..Len(s) : s[i] \notin Whitespace}
    IN  IF keep = {} THEN <<>>
        ELSE LET lo == CHOOSE i \in keep : \A j \in keep : i <= j
                 hi == CHOOSE i \in keep : \A j \in keep : j <= i
             IN  SubSeq(s, lo, hi)

\* `sub in s` for two strings
Contains(s, sub) ==
    \E i \in 0..(Len(s) - Len(sub)) : SubSeq(s, i + 1, i + Len(sub)) = sub

(***************************************************************************)
(* keyword_category                                                        *)
(***************************************************************************)
rules ==
    << [cat |-> <<"w","o","r","k">>,
        kws |-> << <<"r","e","p","o","r","t">>,
                   <<"m","e","e","t","i","n","g">>,
                   <<"e","m","a","i","l">>,
                   <<"c","l","i","e","n","t">>,
                   <<"a","n","a","l","y","s","i","s">>,
                   <<"d","a","s","h","b","o","a","r","d">>,
                   <<"p","p","t">>,
                   <<"e","x","c","e","l">>,
                   <<"j","i","r","a">> >>],
       [cat |-> <<"s","t","u","d","y">>,
        kws |-> << <<"r","e","a","d">>,
                   <<"s","t","u","d","y">>,
                   <<"c","o","u","r","s","e">>,
                   <<"a","s","s","i","g","n","m","e","n","t">>,
                   <<"n","o","t","e","b","o","o","k">>,
                   <<"l","e","c","t","u","r","e">>,
                   <<"l","e","a","r","n">> >>],
       [cat |-> <<"p","e","r","s","o","n","a","l">>,
        kws |-> << <<"c","a","l","l">>,
                   <<"d","o","c","t","o","r">>,
                   <<"m","e","d","i","c","i","n","e">>,
                   <<"f","a","m","i","l","y">>,
                   <<"c","l","e","a","n">>,
                   <<"g","r","o","c","e","r","i","e","s">>,
                   <<"s","h","o","p","p","i","n","g">> >>],
       [cat |-> <<"f","i","n","a","n","c","e">>,
        kws |-> << <<"t","a","x">>,
                   <<"i","n","v","o","i","c","e">>,
                   <<"b","u","d","g","e","t">>,
                   <<"p","a","y","m","e","n","t">>,
                   <<"s","a","l","a","r","y">>,
                   <<"b","i","l","l">> >>],
       [cat |-> <<"f","i","t","n","e","s","s">>,
        kws |-> << <<"g","y","m">>,
                   <<"r","u","n">>,
                   <<"w","a","l","k">>,
                   <<"y","o","g","a">>,
                   <<"w","o","r","k","o","u","t">>,
                   <<"s","w","i","m">> >>],
       [cat |-> <<"e","r","r","a","n","d">>,
        kws |-> << <<"b","u","y">>,
                   <<"p","i","c","k">>,
                   <<"d","r","o","p">>,
                   <<"b","a","n","k">>,
                   <<"p","o","s","t">>,
                   <<"r","e","p","a","i","r">> >>] >>

General == <<"G","e","n","e","r","a","l">>

\* any(kw in task_l for kw in kws)
AnyKeyword(task_l, kws) == \E k \in 1..Len(kws) : Contains(task_l, kws[k])

\* the loop `for cat, kws in rules.items()` from the i-th entry on, over table rs
RECURSIVE ScanRules(_, _, _)
ScanRules(rs, task_l, i) ==
    IF i > Len(rs) THEN General
    ELSE IF AnyKeyword(task_l, rs[i].kws) THEN title(rs[i].cat)
    ELSE ScanRules(rs, task_l, i + 1)

Reverse(xs) == [i \in 1..Len(xs) |-> xs[Len(xs) + 1 - i]]
\* keyword_category with the table scanned from its last entry
keyword_category_Reversed(task) == ScanRules(Reverse(rules), lower(task), 1)

keyword_category(task) == ScanRules(rules, lower(task), 1)

(***************************************************************************)
(* Python values, as json.loads builds them and json.dumps reads them.     *)
(* A dict is the sequence of its items in insertion order.                 *)
(***************************************************************************)
PyNone      == [t |-> "none", v |-> <<>>]
PyBool(b)   == [t |-> "bool", v |-> b]
PyNum(ds)   == [t |-> "num",  v |-> ds]      \* ds: the digits of an int
PyStr(s)    == [t |-> "str",  v |-> s]
PyList(xs)  == [t |-> "list", v |-> xs]
PyDict(kvs) == [t |-> "dict", v |-> kvs]     \* kvs: <<[k |-> key, val |-> value], ...>>

\* `key in d` for a dict d
HasKey(d, key) == \E i \in 1..Len(d.v) : d.v[i].k = key
\* d[key] for a dict d holding key
Item(d, key) == d.v[CHOOSE i \in 1..Len(d.v) : d.v[i].k = key].val
\* d.get(key, default)
Get(d, key, default) == IF HasKey(d, key) THEN Item(d, key) ELSE default
\* d[key] = val: in place when the key is there, appended otherwise
SetItem(d, key, val) ==
    IF HasKey(d, key)
    THEN PyDict([i \in 1..Len(d.v) |->
                    IF d.v[i].k = key THEN [k |-> key, val |-> val] ELSE d.v[i]])
    ELSE PyDict(Append(d.v, [k |-> key, val |-> val]))

\* bool(x)
Truthy(x) ==
    CASE x.t = "none" -> FALSE
      [] x.t = "bool" -> x.v
      [] x.t = "num"  -> x.v # <<"0">>
      [] OTHER        -> Len(x.v) > 0

\* The one element of a singleton.  Only({ F(v) : v \in {e} }) is F(e)
\* with e computed once and named v.
Only(S) == CHOOSE x \in S : TRUE

RECURSIVE repr(_)
RECURSIVE ReprElems(_, _)
RECURSIVE ReprItems(_, _)
\* the reprs of xs[i:], joined by ", "
ReprElems(xs, i) ==
    IF i > Len(xs) THEN <<>>
    ELSE (IF i > 1 THEN <<",", " ">> ELSE <<>>) \o repr(xs[i]) \o ReprElems(xs, i + 1)
ReprItems(kvs, i) ==
    IF i > Len(kvs) THEN <<>>
    ELSE (IF i > 1 THEN <<",", " ">> ELSE <<>>)
         \o <<"'">> \o kvs[i].k \o <<"'", ":", " ">> \o repr(kvs[i].val)
         \o ReprItems(kvs, i + 1)
\* repr(x); str(x) differs from it on strings only
repr(x) ==
    CASE x.t = "none" -> <<"N","o","n","e">>
      [] x.t = "bool" -> IF x.v THEN <<"T","r","u","e">> ELSE <<"F","a","l","s","e">>
      [] x.t = "num"  -> x.v
      [] x.t = "str"  -> <<"'">> \o x.v \o <<"'">>
      [] x.t = "list" -> <<"[">> \o ReprElems(x.v, 1) \o <<"]">>
      [] x.t = "dict" -> <<"{">> \o ReprItems(x.v, 1) \o <<"}">>

\* str(x)
str(x) == IF x.t = "str" THEN x.v ELSE repr(x)

(***************************************************************************)
(* JSON text: a sequence of tokens.                                        *)
(***************************************************************************)
Punct(c)  == [t |-> "punct",   v |-> <<c>>]     \* one of [ ] { } , :
StrTok(s) == [t |-> "string",  v |-> s]         \* a quoted string
LitTok(s) == [t |-> "literal", v |-> s]         \* true, false, null, a number
Prose(s)  == [t |-> "prose",   v |-> s]         \* any other text

LBracket == Punct("[")
RBracket == Punct("]")
LBrace   == Punct("{")
RBrace   == Punct("}")
Comma    == Punct(",")
Colon    == Punct(":")

Digits == {"0","1","2","3","4","5","6","7","8","9"}

RECURSIVE json_dumps(_)
RECURSIVE DumpElems(_, _)
RECURSIVE DumpItems(_, _)
\* the elements xs[i:] of an array, comma-separated
DumpElems(xs, i) ==
    IF i > Len(xs) THEN <<>>
    ELSE (IF i > 1 THEN <<Comma>> ELSE <<>>) \o json_dumps(xs[i]) \o DumpElems(xs, i + 1)
\* the members kvs[i:] of an object, comma-separated
DumpItems(kvs, i) ==
    IF i > Len(kvs) THEN <<>>
    ELSE (IF i > 1 THEN <<Comma>> ELSE <<>>)
         \o <<StrTok(kvs[i].k), Colon>> \o json_dumps(kvs[i].val)
         \o DumpItems(kvs, i + 1)
\* json.dumps(x, indent=2): indentation is whitespace, which the tokens drop
json_dumps(x) ==
    CASE x.t = "none" -> << LitTok(<<"n","u","l","l">>) >>
      [] x.t = "bool" -> << LitTok(IF x.v THEN <<"t","r","u","e">>
                                          ELSE <<"f","a","l","s","e">>) >>
      [] x.t = "num"  -> << LitTok(x.v) >>
      [] x.t = "str"  -> << StrTok(x.v) >>
      [] x.t = "list" -> <<LBracket>> \o DumpElems(x.v, 1) \o <<RBracket>>
      [] x.t = "dict" -> <<LBrace>> \o DumpItems(x.v, 1) \o <<RBrace>>

\* a parse step: the value read and the index of the token after it
ParseFail == [ok |-> FALSE, val |-> PyNone, next |-> 0]
ParseOk(val, next) == [ok |-> TRUE, val |-> val, next |-> next]

TokenAt(toks, i) == IF i \in 1..Len(toks) THEN toks[i] ELSE Prose(<<>>)

ParseLiteral(s) ==
    CASE s = <<"n","u","l","l">>     -> [ok |-> TRUE, val |-> PyNone]
      [] s = <<"t","r","u","e">>     -> [ok |-> TRUE, val |-> PyBool(TRUE)]
      [] s = <<"f","a","l","s","e">> -> [ok |-> TRUE, val |-> PyBool(FALSE)]
      [] OTHER ->
            IF Len(s) > 0 /\ \A i \in 1..Len(s) : s[i] \in Digits
            THEN [ok |-> TRUE, val |-> PyNum(s)]
            ELSE [ok |-> FALSE, val |-> PyNone]

RECURSIVE ParseValue(_, _)
RECURSIVE ParseElems(_, _, _)
RECURSIVE ParseMembers(_, _, _)

\* the elements of an array after `[` or `,`; acc holds those read so far
ParseElems(toks, i, acc) ==
    Only({ IF ~r.ok THEN ParseFail
           ELSE IF TokenAt(toks, r.next) = Comma
                THEN ParseElems(toks, r.next + 1, Append(acc, r.val))
           ELSE IF TokenAt(toks, r.next) = RBracket
                THEN ParseOk(PyList(Append(acc, r.val)), r.next + 1)
           ELSE ParseFail
         : r \in {ParseValue(toks, i)} })

\* the members of an object after `{` or `,`; a repeated key keeps its
\* first position and takes the last value
ParseMembers(toks, i, acc) ==
    IF TokenAt(toks, i).t # "string" \/ TokenAt(toks, i + 1) # Colon THEN ParseFail
    ELSE Only({ IF ~r.ok THEN ParseFail
                ELSE Only({ IF TokenAt(toks, r.next) = Comma
                                 THEN ParseMembers(toks, r.next + 1, d)
                            ELSE IF TokenAt(toks, r.next) = RBrace
                                 THEN ParseOk(d, r.next + 1)
                            ELSE ParseFail
                          : d \in {SetItem(acc, toks[i].v, r.val)} })
              : r \in {ParseValue(toks, i + 2)} })

ParseValue(toks, i) ==
    Only({ CASE tk.t = "string"  -> ParseOk(PyStr(tk.v), i + 1)
             [] tk.t = "literal" ->
                   IF ParseLiteral(tk.v).ok
                   THEN ParseOk(ParseLiteral(tk.v).val, i + 1) ELSE ParseFail
             [] tk = LBracket ->
                   IF TokenAt(toks, i + 1) = RBracket
                   THEN ParseOk(PyList(<<>>), i + 2)
                   ELSE ParseElems(toks, i + 1, <<>>)
             [] tk = LBrace ->
                   IF TokenAt(toks, i + 1) = RBrace
                   THEN ParseOk(PyDict(<<>>), i + 2)
                   ELSE ParseMembers(toks, i + 1, PyDict(<<>>))
             [] OTHER -> ParseFail
         : tk \in {TokenAt(toks, i)} })

\* json.loads(text) / json.load(file): ok = FALSE stands for the
\* JSONDecodeError, raised also when text follows the value
json_loads(toks) ==
    Only({ IF r.ok /\ r.next = Len(toks) + 1
           THEN [ok |-> TRUE, val |-> r.val]
           ELSE [ok |-> FALSE, val |-> PyNone]
         : r \in {ParseValue(toks, 1)} })

(***************************************************************************)
(* ai_enrich_task                                                          *)
(***************************************************************************)
K_task       == <<"t","a","s","k">>
K_done       == <<"d","o","n","e">>
K_category   == <<"c","a","t","e","g","o","r","y">>
K_priority   == <<"p","r","i","o","r","i","t","y">>
K_subtasks   == <<"s","u","b","t","a","s","k","s">>
K_created_at == <<"c","r","e","a","t","e","d","_","a","t">>

High   == <<"H","i","g","h">>
Medium == <<"M","e","d","i","u","m">>
Low    == <<"L","o","w">>

MaxSubtasks == 5     \* suggested["subtasks"][:5]

\* str.find / str.rfind of one token, 0-based, -1 when absent
find(content, tok) ==
    IF \E i \in 1..Len(content) : content[i] = tok
    THEN (CHOOSE i \in 1..Len(content) :
            content[i] = tok /\ \A j \in 1..(i - 1) : content[j] # tok) - 1
    ELSE -1
rfind(content, tok) ==
    IF \E i \in 1..Len(content) : content[i] = tok
    THEN (CHOOSE i \in 1..Len(content) :
            content[i] = tok /\ \A j \in (i + 1)..Len(content) : content[j] # tok) - 1
    ELSE -1
\* xs[start:stop]
Slice(xs, start, stop) == SubSeq(xs, start + 1, IF stop > Len(xs) THEN Len(xs) ELSE stop)

\* `key in x` raises TypeError when x is no container
InRaises(x) == x.t \in {"none", "bool", "num"}
\* `key in x`: a key of a dict, an element of a list, a substring of a str
In(key, x) ==
    CASE x.t = "dict" -> HasKey(x, key)
      [] x.t = "list" -> \E i \in 1..Len(x.v) : x.v[i] = PyStr(key)
      [] x.t = "str"  -> Contains(x.v, key)
      [] OTHER        -> FALSE
\* x[key] raises: TypeError when x is no dict, KeyError when the key is missing
SubscriptRaises(x, key) == x.t # "dict" \/ ~HasKey(x, key)

\* line 71 testing one key only
HasAllKeys_CategoryOnly(suggested) == In(K_category, suggested)

\* line 71: the test that the three keys are there
HasAllKeys(suggested) ==
    /\ In(K_category, suggested)
    /\ In(K_priority, suggested)
    /\ In(K_subtasks, suggested)

\* lines 35-39: the rule-based suggestion
Fallback(task) ==
    PyDict(<< [k |-> K_category, val |-> PyStr(keyword_category(task))],
              [k |-> K_priority, val |-> PyStr(Medium)],
              [k |-> K_subtasks, val |-> PyList(<<>>)] >>)

\* line 74
CheckedPriority(pr) == IF pr \in {High, Medium, Low} THEN pr ELSE Medium

\* line 76 without the [:5]
TrimmedSubtasks_All(xs) == PyList([i \in 1..Len(xs) |-> PyStr(strip(str(xs[i])))])

\* line 76
TrimmedSubtasks(xs) ==
    PyList([i \in 1..Len(Slice(xs, 0, MaxSubtasks)) |-> PyStr(strip(str(xs[i])))])

\* lines 72-76, statement by statement: an exception leaves `suggestion`
\* as the statements before it made it
Validate(suggestion, suggested) ==
    IF SubscriptRaises(suggested, K_category) THEN suggestion
    ELSE LET s1 == SetItem(suggestion, K_category,
                           PyStr(title(str(Item(suggested, K_category)))))
         IN  IF SubscriptRaises(suggested, K_priority) THEN s1
             ELSE LET pr == title(str(Item(suggested, K_priority)))
                      s2 == SetItem(s1, K_priority, PyStr(CheckedPriority(pr)))
                  IN  IF SubscriptRaises(suggested, K_subtasks) THEN s2
                      ELSE IF Item(suggested, K_subtasks).t = "list"
                           THEN SetItem(s2, K_subtasks,
                                        TrimmedSubtasks(Item(suggested, K_subtasks).v))
                      ELSE s2

\* lines 63-69: the text between the first { and the last }, parsed
ParseContent(content) ==
    LET start == find(content, LBrace)
        end   == rfind(content, RBrace)
    IN  json_loads(IF start # -1 /\ end # -1
                   THEN Slice(content, start, end + 1) ELSE content)

\* lines 44-79: the try block.  resp is what the completion service does:
\* kind "error" is any exception of the call (network, credential, a
\* missing message), kind "ok" carries the message content
TryEnrich(suggestion, resp) ==
    IF resp.kind = "error" THEN suggestion
    ELSE Only({ IF ~parsed.ok THEN suggestion
                ELSE IF InRaises(parsed.val) THEN suggestion
                ELSE IF ~HasAllKeys(parsed.val) THEN suggestion
                ELSE Validate(suggestion, parsed.val)
              : parsed \in {ParseContent(resp.content)} })

\* ai_enrich_task with `if api_key is None` at line 41
ai_enrich_task_IsNone(task, api_key, resp) ==
    IF api_key = PyNone
    THEN [ret |-> Fallback(task), calls |-> 0]
    ELSE [ret |-> TryEnrich(Fallback(task), resp), calls |-> 1]

\* ai_enrich_task(task, api_key): the suggestion returned and the number
\* of calls made to the completion service
ai_enrich_task(task, api_key, resp) ==
    IF ~Truthy(api_key)
    THEN [ret |-> Fallback(task), calls |-> 0]
    ELSE Only({ [ret |-> TryEnrich(fallback, resp), calls |-> 1]
              : fallback \in {Fallback(task)} })

(***************************************************************************)
(* One run of the script (lines 138-198) over a run state r:               *)
(*   tasks, export, msgs  as the variables;                                *)
(*   w         the widget states of the session, by widget id;             *)
(*   rendered  the ids of the checkboxes this run has rendered;            *)
(*   present, read   the file_uploader's file and what reading it gives;   *)
(*   rerun     st.rerun() was called: the run stops there;                 *)
(*   calls, reached   what the run did, for the event record.              *)
(***************************************************************************)
RemoveAt(xs, i) == [j \in 1..(Len(xs) - 1) |-> IF j < i THEN xs[j] ELSE xs[j + 1]]

\* lines 115-117
download_tasks_button(r) == [r EXCEPT !.export = json_dumps(PyList(r.tasks))]

\* upload_tasks emptying the list when the file holds no array
upload_tasks_ResetOnInvalid(r) ==
    IF ~r.present THEN r
    ELSE Only({ IF ~loaded.ok
                THEN [r EXCEPT !.read = <<>>,
                               !.msgs = @ \cup {"error: Could not load file"}]
                ELSE IF loaded.val.t = "list"
                THEN [r EXCEPT !.read = <<>>,
                               !.tasks = loaded.val.v,
                               !.msgs = @ \cup {"success: Tasks loaded from file."},
                               !.rerun = TRUE]
                ELSE [r EXCEPT !.read = <<>>,
                               !.tasks = <<>>,
                               !.msgs = @ \cup {"error: Invalid file format."}]
              : loaded \in {json_loads(r.read)} })

\* lines 120-132; json.load reads the file to its end
upload_tasks(r) ==
    IF ~r.present THEN r
    ELSE Only({ IF ~loaded.ok
                THEN [r EXCEPT !.read = <<>>,
                               !.msgs = @ \cup {"error: Could not load file"}]
                ELSE IF loaded.val.t = "list"
                THEN [r EXCEPT !.read = <<>>,
                               !.tasks = loaded.val.v,
                               !.msgs = @ \cup {"success: Tasks loaded from file."},
                               !.rerun = TRUE]
                ELSE [r EXCEPT !.read = <<>>,
                               !.msgs = @ \cup {"error: Invalid file format."}]
              : loaded \in {json_loads(r.read)} })

NotDone(t) == ~Truthy(Get(t, K_done, PyNone))

\* lines 110-112
clear_completed(r) ==
    [r EXCEPT !.tasks = SelectSeq(r.tasks, NotDone), !.rerun = TRUE, !.reached = TRUE]

\* lines 94-101: the task dict appended
NewTask(text, enrich, now) ==
    PyDict(<< [k |-> K_task,       val |-> PyStr(strip(text))],
              [k |-> K_done,       val |-> PyBool(FALSE)],
              [k |-> K_category,   val |-> Get(enrich, K_category, PyStr(General))],
              [k |-> K_priority,   val |-> Get(enrich, K_priority, PyStr(Medium))],
              [k |-> K_subtasks,   val |-> Get(enrich, K_subtasks, PyList(<<>>))],
              [k |-> K_created_at, val |-> PyStr(now)] >>)

\* add_task with `if not task_text` at line 90
add_task_NoStrip(r, task_text, ai_key, resp, now) ==
    IF task_text = <<>>
    THEN [r EXCEPT !.msgs = @ \cup {"warning: Please enter a valid task."},
                   !.reached = TRUE]
    ELSE Only({ [r EXCEPT !.tasks = Append(@, NewTask(task_text, enrich.ret, now)),
                          !.calls = @ + enrich.calls,
                          !.msgs = @ \cup {"success: Task added!"},
                          !.reached = TRUE]
              : enrich \in {ai_enrich_task(strip(task_text), ai_key, resp)} })

\* lines 89-102
add_task(r, task_text, ai_key, resp, now) ==
    IF strip(task_text) = <<>>
    THEN [r EXCEPT !.msgs = @ \cup {"warning: Please enter a valid task."},
                   !.reached = TRUE]
    ELSE Only({ [r EXCEPT !.tasks = Append(@, NewTask(task_text, enrich.ret, now)),
                          !.calls = @ + enrich.calls,
                          !.msgs = @ \cup {"success: Task added!"},
                          !.reached = TRUE]
              : enrich \in {ai_enrich_task(strip(task_text), ai_key, resp)} })

\* line 166: api_key.strip() or None
KeyOrNone(api_key) == IF strip(api_key) = <<>> THEN PyNone ELSE PyStr(strip(api_key))

\* The identity Streamlit gives the checkbox of line 177: its key, and,
\* in builds before widget identity was reduced to the key, its `value`
WidgetId(i, value) == [key |-> i, val |-> IF keyIdentity THEN FALSE ELSE value]

\* line 177: st.checkbox("", value=..., key=f"done_{i}") returns the widget
\* state the session holds for this identity, and `value` when it holds none
checkbox(r, i, value) ==
    IF WidgetId(i, value) \in DOMAIN r.w THEN r.w[WidgetId(i, value)] ELSE value

\* line 177 as a statement: the returned value is written to the task
RenderCheckbox(r, i) ==
    LET value == Truthy(Get(r.tasks[i], K_done, PyBool(FALSE)))
        id    == WidgetId(i, value)
        ret   == checkbox(r, i, value)
    IN  [r EXCEPT !.tasks[i] = SetItem(@, K_done, PyBool(ret)),
                  !.w = [x \in DOMAIN r.w \cup {id} |-> IF x = id THEN ret ELSE r.w[x]],
                  !.rendered = @ \cup {id}]

\* lines 105-107
remove_task(r, idx) ==
    [r EXCEPT !.tasks = RemoveAt(@, idx), !.rerun = TRUE, !.reached = TRUE]

RECURSIVE RenderTasks(_, _, _)
\* lines 173-196 from the i-th task on; rm is the position whose Remove
\* button was clicked (0: none)
RenderTasks(r, i, rm) ==
    IF i > Len(r.tasks) THEN r
    ELSE Only({ IF rm = i THEN remove_task(r1, i) ELSE RenderTasks(r1, i + 1, rm)
              : r1 \in {RenderCheckbox(r, i)} })

\* the clicks and inputs of one user event
NoClick ==
    [clear |-> FALSE, add |-> FALSE, rm |-> 0,
     text |-> <<>>, api_key |-> <<>>, resp |-> [kind |-> "error", content |-> <<>>],
     now |-> <<>>]

\* the statements of the script, lines 138-198, in order
Statement(r, e, pc) ==
    CASE pc = 1 -> download_tasks_button(r)                                \* line 150
      [] pc = 2 -> upload_tasks(r)                                         \* line 151
      [] pc = 3 -> IF e.clear THEN clear_completed(r) ELSE r               \* lines 153-154
      [] pc = 4 -> IF e.add                                                \* lines 165-166
                   THEN add_task(r, e.text, KeyOrNone(e.api_key), e.resp, e.now)
                   ELSE r
      [] pc = 5 -> RenderTasks(r, 1, e.rm)                                 \* lines 170-196

RECURSIVE RunFrom(_, _, _)
\* the run from statement pc on; st.rerun() ends it
RunFrom(r, e, pc) ==
    IF pc > 5 \/ r.rerun THEN r
    ELSE Only({ RunFrom(r1, e, pc + 1) : r1 \in {Statement(r, e, pc)} })

Script(r, e) == RunFrom(r, e, 1)

\* the end of a run: Streamlit drops the state of the widgets the run did
\* not render
DropStale(r) == [r EXCEPT !.w = [x \in (DOMAIN r.w) \cap r.rendered |-> r.w[x]]]

\* st.rerun(): the run ends and the script starts again, with the session
\* state kept, no click pending, and the same (already read) file object
Restart(r) ==
    [DropStale(r) EXCEPT !.rendered = {}, !.msgs = {}, !.rerun = FALSE]

RECURSIVE RunToEnd(_, _)
RunToEnd(r, e) ==
    Only({ IF r1.rerun
           THEN Only({ RunToEnd(r2, NoClick) : r2 \in {Restart(r1)} })
           ELSE DropStale(r1)
         : r1 \in {Script(r, e)} })

\* the run state a browser event starts with: the widget states w the
\* browser sends, and the uploaded file as a new file object
StartRun(w, file) ==
    [tasks |-> tasks, w |-> w, rendered |-> {}, export |-> export, msgs |-> {},
     present |-> file.present, read |-> file.toks, rerun |-> FALSE,
     calls |-> 0, reached |-> FALSE]

NoFile == [present |-> FALSE, toks |-> <<>>]

\* the event record
Event(op, i, text, r) ==
    [op |-> op, i |-> i, text |-> text,
     calls |-> r.calls, reached |-> r.reached]

\* a browser event e with widget states w and file `file`, run to the end
Handle(op, i, e, w, file) ==
    \E r0 \in {StartRun(w, file)} :
      \E r \in {RunToEnd(r0, e)} :
        /\ tasks' = r.tasks
        /\ wstate' = r.w
        /\ export' = r.export
        /\ msgs' = r.msgs
        /\ uploaded' = file
        /\ ev' = Event(op, i, e.text, r)
        /\ UNCHANGED keyIdentity

(***************************************************************************)
(* The inputs of the session: what the user types and uploads, what the    *)
(* completion service answers.                                             *)
(***************************************************************************)
DigitChar(n) == <<"0","1","2","3","4","5","6","7","8","9">>[(n % 10) + 1]

\* the n-th suggested subtask: a string with blanks around it, or a number
Suggested(n) == IF n = 2 THEN PyNum(<<"4","2">>) ELSE PyStr(<<" ","s",DigitChar(n)," ">>)
SuggestedList(n) == PyList([i \in 1..n |-> Suggested(i)])

Sure == Prose(<<"S","u","r","e">>)

\* an answer off the enumerated sets: an unknown category, an unknown
\* priority, one subtask more than the limit
LooseAnswer ==
    PyDict(<< [k |-> K_category, val |-> PyStr(<<"u","r","g","e","n","t"," ","s","t","u","f","f">>)],
              [k |-> K_priority, val |-> PyStr(<<"u","r","g","e","n","t">>)],
              [k |-> K_subtasks, val |-> SuggestedList(MaxSubtasks + 1)] >>)

AppTexts == { <<" "," ">>,
              <<" ","b","u","y"," ","m","e","d","i","c","i","n","e"," ">> }
AppKeys  == { <<" ">>, <<"s","k">> }
AppResponses ==
    { [kind |-> "error", content |-> <<>>],
      [kind |-> "ok", content |-> <<Sure>> \o json_dumps(LooseAnswer)] }
Now == <<"T","1">>

\* a task list written by hand: a category and a subtask count that
\* add_task does not produce
ForeignTask ==
    PyDict(<< [k |-> K_task,       val |-> PyStr(<<"x","y","z">>)],
              [k |-> K_done,       val |-> PyBool(TRUE)],
              [k |-> K_category,   val |-> PyStr(<<"U","r","g","e","n","t">>)],
              [k |-> K_priority,   val |-> PyStr(<<"A","s","a","p">>)],
              [k |-> K_subtasks,   val |-> SuggestedList(MaxSubtasks + 1)],
              [k |-> K_created_at, val |-> PyStr(Now)] >>)

ForeignFiles ==
    { json_dumps(PyList(<<ForeignTask>>)),     \* an array
      json_dumps(ForeignTask),                 \* an object
      <<Sure>> }                               \* no JSON

Init ==
    /\ tasks = <<>>
    /\ wstate = <<>>
    /\ uploaded = NoFile
    /\ export = json_dumps(PyList(<<>>))
    /\ msgs = {}
    /\ ev = [op |-> "init", i |-> 0, text |-> <<>>,
             calls |-> 0, reached |-> FALSE]
    /\ keyIdentity \in BOOLEAN

(***************************************************************************)
(* The user's events.  Each is the browser's request and the script's run  *)
(* (and re-run) that answers it.                                           *)
(***************************************************************************)
\* the Add Task button, lines 162-166
AddTask ==
    /\ Len(tasks) < MaxTasks
    /\ \E text \in AppTexts, api_key \in AppKeys, resp \in AppResponses :
          Handle("add", 0,
                 [NoClick EXCEPT !.add = TRUE, !.text = text, !.api_key = api_key,
                                 !.resp = resp, !.now = Now],
                 wstate, uploaded)

\* a click on the checkbox shown at position i, line 177
Toggle ==
    \E id \in DOMAIN wstate :
        Handle("toggle", id.key, NoClick, [wstate EXCEPT ![id] = ~@], uploaded)

\* the Remove button of position i, lines 195-196
Remove ==
    \E i \in 1..Len(tasks) :
        Handle("remove", i, [NoClick EXCEPT !.rm = i], wstate, uploaded)

\* the Clear completed button, lines 153-154
ClearCompleted ==
    Handle("clear", 0, [NoClick EXCEPT !.clear = TRUE], wstate, uploaded)

\* a file put into the uploader, line 121: a file written by hand, or
\* the one the download button offers
Upload ==
    \E toks \in ForeignFiles \cup {export} :
        Handle("upload", 0, NoClick, wstate, [present |-> TRUE, toks |-> toks])

\* the file taken out of the uploader
RemoveFile ==
    /\ uploaded.present
    /\ Handle("unfile", 0, NoClick, wstate, NoFile)

\* the Download button, line 117, or any other widget: a run without a click
Rerun ==
    Handle("rerun", 0, NoClick, wstate, uploaded)

Next ==
    \/ AddTask
    \/ Toggle
    \/ Remove
    \/ ClearCompleted
    \/ Upload
    \/ RemoveFile
    \/ Rerun

Spec == Init /\ [][Next]_vars

(***************************************************************************)
(* keyword_category and ai_enrich_task called on their own, over bounded   *)
(* sets of arguments: one call from the initial state.  ev records the     *)
(* call and what it returned.                                              *)
(***************************************************************************)
Words ==
    { <<"b","u","y">>, <<"m","e","d","i","c","i","n","e">>, <<"M","e","e","t","i","n","g">>,
      <<"R","E","A","D">>, <<"r","e","p","o","r","t">>, <<"b","i","l","l">>,
      <<"p","r","u","n","e">>, <<"x","y","z">> }

RECURSIVE TextsUpTo(_)
\* the texts of at most n words, blank-separated
TextsUpTo(n) ==
    IF n = 0 THEN {<<>>}
    ELSE TextsUpTo(n - 1)
         \cup { IF t = <<>> THEN w ELSE t \o <<" ">> \o w : t \in TextsUpTo(n - 1), w \in Words }

FnTexts == TextsUpTo(MaxWords)
EnrichTexts ==
    { <<"x","y","z">>, <<"M","e","e","t","i","n","g">>,
      <<"b","u","y"," ","m","e","d","i","c","i","n","e">> }
FnKeys == { PyNone, PyStr(<<>>), PyStr(<<"s","k">>) }

\* the answers of the completion service: a JSON object with any of the
\* three keys, each of any type, between optional prose
Absent == [t |-> "absent", v |-> <<>>]
CategoryValues ==
    { Absent, PyNone, PyNum(<<"7">>), PyStr(<<"f","i","n","a","n","c","e">>),
      PyStr(<<"h","o","m","e"," ","o","f","f","i","c","e">>) }
PriorityValues ==
    { Absent, PyNone, PyStr(<<"u","r","g","e","n","t">>), PyStr(<<"H","I","G","H">>),
      PyStr(<<"l","o","w">>) }
SubtaskValues ==
    { Absent, PyNone, PyStr(<<"x">>) } \cup { SuggestedList(n) : n \in 0..(MaxSubtasks + 1) }

Member(key, val) == IF val = Absent THEN <<>> ELSE << [k |-> key, val |-> val] >>
Answer(c, p, s) ==
    PyDict(Member(K_category, c) \o Member(K_priority, p) \o Member(K_subtasks, s))

KeyNames == <<PyStr(K_category), PyStr(K_priority), PyStr(K_subtasks)>>

FnResponses ==
    { [kind |-> "error", content |-> <<>>] }
    \cup { [kind |-> "ok", content |-> pre \o json_dumps(Answer(c, p, s)) \o post] :
             pre \in {<<>>, <<Sure>>}, post \in {<<>>, <<Sure>>, <<RBrace>>},
             c \in CategoryValues, p \in PriorityValues, s \in SubtaskValues }
    \cup { [kind |-> "ok", content |-> toks] :
             toks \in { <<Sure>>,                                  \* prose, no braces
                        <<RBrace, Sure, LBrace>>,                  \* } before {
                        json_dumps(PyList(KeyNames)),              \* a list of the key names
                        json_dumps(PyStr(K_category \o K_priority \o K_subtasks)),
                        json_dumps(PyNum(<<"5">>)) } }

\* keyword_category(text)
CallKeywordCategory ==
    /\ ev.op = "init"
    /\ \E text \in FnTexts :
          ev' = [op |-> "keyword_category", text |-> text, out |-> keyword_category(text)]
    /\ UNCHANGED <<tasks, wstate, uploaded, export, msgs, keyIdentity>>

\* ai_enrich_task(text, api_key), the completion service answering resp
CallEnrich ==
    /\ ev.op = "init"
    /\ \E text \in EnrichTexts, api_key \in FnKeys, resp \in FnResponses :
          \E out \in {ai_enrich_task(text, api_key, resp)} :
              ev' = [op |-> "ai_enrich_task", text |-> text, api_key |-> api_key,
                     resp |-> resp, ret |-> out.ret, calls |-> out.calls]
    /\ UNCHANGED <<tasks, wstate, uploaded, export, msgs, keyIdentity>>

NextFn ==
    \/ CallKeywordCategory
    \/ CallEnrich

SpecFn == Init /\ [][NextFn]_vars

(***************************************************************************)
(* Properties of keyword_category and ai_enrich_task, under SpecFn.        *)
(***************************************************************************)
Categories ==
    { <<"W","o","r","k">>, <<"S","t","u","d","y">>, <<"P","e","r","s","o","n","a","l">>,
      <<"F","i","n","a","n","c","e">>, <<"F","i","t","n","e","s","s">>,
      <<"E","r","r","a","n","d">>, General }
Priorities == { High, Medium, Low }

\* the order the categories are tested in, as the specification fixes it
TableOrder ==
    << <<"W","o","r","k">>, <<"S","t","u","d","y">>, <<"P","e","r","s","o","n","a","l">>,
       <<"F","i","n","a","n","c","e">>, <<"F","i","t","n","e","s","s">>,
       <<"E","r","r","a","n","d">> >>

\* the trigger substrings of a category, by its name
Triggers(name) ==
    UNION { {rules[i].kws[k] : k \in 1..Len(rules[i].kws)} :
            i \in {j \in 1..Len(rules) : title(rules[j].cat) = name} }

\* the category has a trigger occurring in the lower-cased text
Hit(name, text) == \E kw \in Triggers(name) : Contains(lower(text), kw)

BuyMedicine == <<"b","u","y"," ","m","e","d","i","c","i","n","e">>

\* C2: keyword_category returns the title-cased name of the first category,
\* in the order work, study, personal, finance, fitness, errand, that has a
\* trigger in the lower-cased text, and General when none has; "buy
\* medicine" gives Personal, not Errand.
C2_FirstCategoryInTableOrder ==
    ev.op = "keyword_category" =>
        /\ \A i \in 1..Len(TableOrder) :
              (Hit(TableOrder[i], ev.text) /\ \A j \in 1..(i - 1) : ~Hit(TableOrder[j], ev.text))
                  => ev.out = TableOrder[i]
        /\ (\A i \in 1..Len(TableOrder) : ~Hit(TableOrder[i], ev.text)) => ev.out = General
        /\ ev.text = BuyMedicine => ev.out = <<"P","e","r","s","o","n","a","l">>

\* a text with triggers of Personal and of Errand was classified Personal
C2_Witness ==
    /\ ev.op = "keyword_category"
    /\ Hit(<<"P","e","r","s","o","n","a","l">>, ev.text)
    /\ Hit(<<"E","r","r","a","n","d">>, ev.text)
    /\ ev.out = <<"P","e","r","s","o","n","a","l">>

\* the rule-based result for a text, field by field
IsFallback(ret, text) ==
    /\ ret.t = "dict"
    /\ Len(ret.v) = 3
    /\ Get(ret, K_category, PyNone) = PyStr(keyword_category(text))
    /\ Get(ret, K_priority, PyNone) = PyStr(Medium)
    /\ Get(ret, K_subtasks, PyNone) = PyList(<<>>)

NoCredential(api_key) == api_key = PyNone \/ api_key = PyStr(<<>>)

\* C3: without a credential (None or the empty string) ai_enrich_task
\* returns {category: keyword_category(text), priority: Medium,
\* subtasks: []} and makes no call to the completion service.
C3_NoCredentialNoCall ==
    (ev.op = "ai_enrich_task" /\ NoCredential(ev.api_key)) =>
        /\ IsFallback(ev.ret, ev.text)
        /\ ev.calls = 0

\* the empty credential, with a service that would have answered
C3_Witness ==
    /\ ev.op = "ai_enrich_task"
    /\ ev.api_key = PyStr(<<>>)
    /\ ev.resp.kind = "ok"
    /\ ev.calls = 0
    /\ IsFallback(ev.ret, ev.text)

\* the answer parses to an object holding the three keys
HoldsAllKeys(parsed) ==
    /\ parsed.ok
    /\ parsed.val.t = "dict"
    /\ HasKey(parsed.val, K_category)
    /\ HasKey(parsed.val, K_priority)
    /\ HasKey(parsed.val, K_subtasks)

\* the call failed, the answer does not parse, or what it parses to is not
\* an object with the three keys
EnrichmentFails(resp) ==
    resp.kind = "error" \/ ~HoldsAllKeys(ParseContent(resp.content))

\* C4: with a credential, when the call, the parsing or the validation
\* fails, ai_enrich_task returns exactly the fallback, no field of it
\* overwritten.
C4_FailureGivesFallback ==
    (ev.op = "ai_enrich_task" /\ ~NoCredential(ev.api_key) /\ EnrichmentFails(ev.resp)) =>
        IsFallback(ev.ret, ev.text)

\* an answer with a category and a priority but no subtasks was discarded
C4_Witness ==
    /\ ev.op = "ai_enrich_task"
    /\ ~NoCredential(ev.api_key)
    /\ ev.resp.kind = "ok"
    /\ ParseContent(ev.resp.content).ok
    /\ ParseContent(ev.resp.content).val.t = "dict"
    /\ HasKey(ParseContent(ev.resp.content).val, K_category)
    /\ HasKey(ParseContent(ev.resp.content).val, K_priority)
    /\ ~HasKey(ParseContent(ev.resp.content).val, K_subtasks)
    /\ keyword_category(ev.text) # General
    /\ IsFallback(ev.ret, ev.text)

Min(a, b) == IF a < b THEN a ELSE b

\* C5: with a credential and an answer that parses to an object holding the
\* three keys: category is the title-cased suggestion, whatever it is;
\* priority is the title-cased suggestion when that is High, Medium or Low,
\* and Medium otherwise; subtasks are the first min(5, n) entries in order,
\* stringified and trimmed, when the suggestion is a list, and [] otherwise.
C5_ValidatedFields ==
    (ev.op = "ai_enrich_task" /\ ~NoCredential(ev.api_key) /\ ev.resp.kind = "ok"
        /\ HoldsAllKeys(ParseContent(ev.resp.content))) =>
        LET suggested == ParseContent(ev.resp.content).val
            cat  == Item(suggested, K_category)
            prio == Item(suggested, K_priority)
            subs == Item(suggested, K_subtasks)
            got  == Get(ev.ret, K_subtasks, PyNone)
        IN  /\ Len(ev.ret.v) = 3
            /\ Get(ev.ret, K_category, PyNone) = PyStr(title(str(cat)))
            /\ Get(ev.ret, K_priority, PyNone) =
                   PyStr(IF title(str(prio)) \in Priorities THEN title(str(prio)) ELSE Medium)
            /\ got.t = "list"
            /\ IF subs.t = "list"
               THEN /\ Len(got.v) = Min(5, Len(subs.v))
                    /\ \A i \in 1..Len(got.v) : got.v[i] = PyStr(strip(str(subs.v[i])))
               ELSE got.v = <<>>

\* six subtasks were cut to five, an unknown priority became Medium and a
\* category outside the enumerated set was kept
C5_Witness ==
    /\ ev.op = "ai_enrich_task"
    /\ ~NoCredential(ev.api_key)
    /\ ev.resp.kind = "ok"
    /\ HoldsAllKeys(ParseContent(ev.resp.content))
    /\ Item(ParseContent(ev.resp.content).val, K_subtasks).t = "list"
    /\ Len(Item(ParseContent(ev.resp.content).val, K_subtasks).v) = 6
    /\ Len(Get(ev.ret, K_subtasks, PyNone).v) = 5
    /\ Get(ev.ret, K_subtasks, PyNone).v[2] = PyStr(<<"4","2">>)
    /\ Get(ev.ret, K_priority, PyNone) = PyStr(Medium)
    /\ Get(ev.ret, K_category, PyNone) = PyStr(<<"H","o","m","e"," ","O","f","f","i","c","e">>)

(***************************************************************************)
(* Properties of the session, under Spec.                                  *)
(***************************************************************************)
Field(t, key) == Get(t, key, PyNone)

\* C1: every task's category is one of Work, Study, Personal, Finance,
\* Fitness, Errand, General and its priority one of High, Medium, Low.
C1_EnumeratedFields ==
    \A i \in 1..Len(tasks) :
        /\ Field(tasks[i], K_category) \in {PyStr(c) : c \in Categories}
        /\ Field(tasks[i], K_priority) \in {PyStr(p) : p \in Priorities}

\* C8: every task has at most five subtasks.
C8_AtMostFiveSubtasks ==
    \A i \in 1..Len(tasks) : Len(Field(tasks[i], K_subtasks).v) <= 5

\* the file does not parse, or parses to something that is no array
BadFile(toks) == ~json_loads(toks).ok \/ json_loads(toks).val.t # "list"

Errors == {"error: Could not load file", "error: Invalid file format."}

\* C6: an import of a file that does not parse, or holds no array, shows an
\* error and leaves the task list as it was.
C6_FailedImportKeepsList ==
    [][(ev'.op = "upload" /\ BadFile(uploaded'.toks)) =>
            /\ tasks' = tasks
            /\ msgs' \cap Errors # {}]_vars

\* a JSON object was uploaded over a list of two tasks, one of them done
C6_Witness ==
    /\ ev.op = "upload"
    /\ json_loads(uploaded.toks).ok
    /\ json_loads(uploaded.toks).val.t = "dict"
    /\ "error: Invalid file format." \in msgs
    /\ Len(tasks) = 2
    /\ \E i \in 1..Len(tasks) : Field(tasks[i], K_done) = PyBool(TRUE)

\* C7: the artifact the download button offers is the serialization of the
\* current list, done flags included, and a list file imported gives back
\* the list it holds, in order.
C7_ExportIsCurrentList ==
    /\ export = json_dumps(PyList(tasks))
    /\ (ev.op = "upload" /\ ~BadFile(uploaded.toks)) =>
           json_dumps(PyList(tasks)) = uploaded.toks

\* C9: add_task with blank text warns, calls nothing and leaves the list;
\* with any other text it appends one task, with the trimmed text and
\* done = False, after the tasks that were there.
C9_AddTask ==
    [][(ev'.op = "add" /\ ev'.reached) =>
            IF strip(ev'.text) = <<>>
            THEN /\ tasks' = tasks
                 /\ "warning: Please enter a valid task." \in msgs'
                 /\ ev'.calls = 0
            ELSE /\ Len(tasks') = Len(tasks) + 1
                 /\ SubSeq(tasks', 1, Len(tasks)) = tasks
                 /\ Field(tasks'[Len(tasks')], K_task) = PyStr(strip(ev'.text))
                 /\ Field(tasks'[Len(tasks')], K_done) = PyBool(FALSE)]_vars

\* blank text was refused with a warning, over a list that holds a done task
C9_Witness ==
    /\ ev.op = "add"
    /\ ev.reached
    /\ ev.text # <<>>
    /\ strip(ev.text) = <<>>
    /\ ev.calls = 0
    /\ "warning: Please enter a valid task." \in msgs
    /\ \E i \in 1..Len(tasks) : Field(tasks[i], K_done) = PyBool(TRUE)

\* C10: remove_task(idx) takes out the task at idx and leaves the others as
\* they were, done flags included, after the re-run; add_task and
\* clear_completed change no done flag of a task that stays.
C10_DoneOnlyByToggle ==
    [][ev'.reached =>
            /\ ev'.op = "remove" => tasks' = RemoveAt(tasks, ev'.i)
            /\ ev'.op = "clear"  => tasks' = SelectSeq(tasks, NotDone)
            /\ ev'.op = "add"    => SubSeq(tasks', 1, Len(tasks)) = tasks]_vars

====
